---- MODULE Spec2Model ----
(***************************************************************************)
(* Model of UserOccupationGenreAnalysisOperator                            *)
(* (dags/operators/genere_operator.py): execute() joins the ratings, the   *)
(* movies and the users tables, cuts the age into buckets, sums the genre  *)
(* columns per (age_group, occupation) and keeps the 5 largest genres of   *)
(* every group; save_to_postgres() inserts one row per group and commits.  *)
(***************************************************************************)
EXTENDS Integers, Sequences, FiniteSets, TLC

VARIABLES
    ratings,        \* ratings table: <<[user_id, item_id, rating]>>
    movies,         \* movies table: <<[movie_id, flags]>>, flags = the 19 raw cells
    users,          \* users table: <<[user_id, age, occupation]>>
    merged_data,    \* the merged frame, with age_group and the coerced flags
    genre_summary,  \* the groupby(...).sum() frame
    top_genres_df,  \* the frame handed to save_to_postgres
    pc,             \* position of the run: start, save, insert, done, failed
    i,              \* 1-based position of the write loop in top_genres_df
    txn,            \* rows inserted by the open, uncommitted transaction
    txn_creates,    \* the open transaction holds the CREATE TABLE
    table_exists,   \* the destination table exists (committed)
    table,          \* committed rows of the destination table
    serial,         \* last value handed out by the id SERIAL sequence
    runs,           \* number of runs started
    faults,         \* number of inserts that raised
    committed,      \* history: number of runs that reached conn.commit()
    base            \* history: Len(table) when the current run connected

vars == <<ratings, movies, users, merged_data, genre_summary, top_genres_df, pc, i,
          txn, txn_creates, table_exists, table, serial, runs, faults, committed, base>>

-----------------------------------------------------------------------------
(* Bounds of the model *)

MaxRatings == 2
MaxRuns == 2
MaxFaults == 1
MaxAge == 60

-----------------------------------------------------------------------------
(* The schema *)

\* the 19 genre columns, in the order of the names= list of read_csv
Genres == << "unknown", "Action", "Adventure", "Animation", "Children's", "Comedy",
             "Crime", "Documentary", "Drama", "Fantasy", "Film-Noir", "Horror",
             "Musical", "Mystery", "Romance", "Sci-Fi", "Thriller", "War", "Western" >>

\* movies.columns[5:]: positions of the genre columns
genre_columns == 1..Len(Genres)

\* lower edges of age_bins; the last bin is closed by float('inf')
age_bins == << 0, 20, 25, 35, 45 >>

age_labels == << "<20", "20-25", "25-35", "35-45", "45+" >>

\* the n of nlargest(n)
TopN == 5

\* pd.cut gives NaN to a value outside every bin
NaN == "NaN"

-----------------------------------------------------------------------------
(* Input tables of the model *)

\* raw cells of the genre columns: "1" for the genres of S, an empty
\* (missing) cell for those of M, "0" elsewhere
Flags(S, M) ==
    [g \in genre_columns |->
        IF Genres[g] \in S THEN "1" ELSE IF Genres[g] \in M THEN "" ELSE "0"]

FlagRows == { Flags({"Comedy"}, {}),
              Flags({"Action", "Comedy"}, {}),
              Flags({"Western", "War"}, {"Comedy"}) }

\* occupations, in the lexicographic order groupby sorts them in
OccupationOrder == << "doctor", "engineer" >>

Profiles == { [age |-> 0 - 1, occupation |-> "doctor"],
              [age |-> 22, occupation |-> "engineer"],
              [age |-> 50, occupation |-> "doctor"] }

Ids == {1, 2}

\* ratings by either user on either item: user 1 rates 5, user 2 rates 1
RatingRows ==
    { r \in [user_id : Ids, item_id : Ids, rating : {1, 5}] :
        r.rating = 5 <=> r.user_id = 1 }

MovieRow(id, f) == [movie_id |-> id, flags |-> f]

UserRow(id, p) == [user_id |-> id, age |-> p.age, occupation |-> p.occupation]

\* tables of at most n rows
Tables(rows, n) == UNION { [1..k -> rows] : k \in 0..n }

\* movies tables: no row, one row of id 1, or a second row of id 1 or 2
MovieTables ==
    {<<>>} \cup { <<MovieRow(1, f)>> : f \in FlagRows }
           \cup { <<MovieRow(1, f), MovieRow(id, g)>> : f \in FlagRows, g \in FlagRows, id \in Ids }

\* users tables: no row, one row of id 1, or a second row of id 1 or 2
UserTables ==
    {<<>>} \cup { <<UserRow(1, p)>> : p \in Profiles }
           \cup { <<UserRow(1, p), UserRow(id, q)>> : p \in Profiles, q \in Profiles, id \in Ids }

-----------------------------------------------------------------------------
(* execute: the merges *)

\* the merge with how='left': a rating without a movie keeps a row of empty cells
RatingMoviesLeft(r, ms) ==
    LET hit == SelectSeq(ms, LAMBDA m : m.movie_id = r.item_id)
    IN  IF hit = <<>>
        THEN << [user_id |-> r.user_id, item_id |-> r.item_id, rating |-> r.rating,
                 flags |-> [g \in genre_columns |-> ""]] >>
        ELSE [k \in 1..Len(hit) |->
                 [user_id |-> r.user_id, item_id |-> r.item_id, rating |-> r.rating,
                  flags |-> hit[k].flags]]

\* ratings.merge(movies[...], left_on='item_id', right_on='movie_id'), an
\* inner join: the rows of one rating, one per movies row of the same id
RatingMovies(r, ms) ==
    LET hit == SelectSeq(ms, LAMBDA m : m.movie_id = r.item_id)
    IN  [k \in 1..Len(hit) |->
            [user_id |-> r.user_id, item_id |-> r.item_id, rating |-> r.rating,
             flags |-> hit[k].flags]]

RECURSIVE MergeMovies(_, _)
MergeMovies(rs, ms) ==
    IF rs = <<>> THEN <<>>
    ELSE RatingMovies(Head(rs), ms) \o MergeMovies(Tail(rs), ms)

\* .merge(users[['user_id', 'age', 'occupation']], on='user_id')
RowUsers(x, us) ==
    LET hit == SelectSeq(us, LAMBDA u : u.user_id = x.user_id)
    IN  [k \in 1..Len(hit) |->
            [user_id |-> x.user_id, item_id |-> x.item_id, rating |-> x.rating,
             flags |-> x.flags, age |-> hit[k].age, occupation |-> hit[k].occupation]]

RECURSIVE MergeUsers(_, _)
MergeUsers(xs, us) ==
    IF xs = <<>> THEN <<>>
    ELSE RowUsers(Head(xs), us) \o MergeUsers(Tail(xs), us)

Merge(rs, ms, us) == MergeUsers(MergeMovies(rs, ms), us)

-----------------------------------------------------------------------------
(* execute: age groups and numeric genre columns *)

\* pd.cut with right=True: the bins are closed on the right
CutRightClosed(a) ==
    IF \E b \in 1..Len(age_bins) :
           age_bins[b] < a /\ (b = Len(age_bins) \/ a <= age_bins[b + 1])
    THEN age_labels[CHOOSE b \in 1..Len(age_bins) :
           age_bins[b] < a /\ (b = Len(age_bins) \/ a <= age_bins[b + 1])]
    ELSE NaN

\* pd.cut with the ages below the first edge clamped into the first bin
CutClamped(a) ==
    IF a < age_bins[1] THEN age_labels[1]
    ELSE age_labels[CHOOSE b \in 1..Len(age_bins) :
           age_bins[b] <= a /\ (b = Len(age_bins) \/ a < age_bins[b + 1])]

\* pd.cut(age, bins=age_bins, labels=age_labels, right=False)
Cut(a) ==
    IF \E b \in 1..Len(age_bins) :
           age_bins[b] <= a /\ (b = Len(age_bins) \/ a < age_bins[b + 1])
    THEN age_labels[CHOOSE b \in 1..Len(age_bins) :
           age_bins[b] <= a /\ (b = Len(age_bins) \/ a < age_bins[b + 1])]
    ELSE NaN

\* pd.to_numeric(errors='coerce') then fillna(0) on one cell
ToNumeric(c) == IF c = "1" THEN 1 ELSE 0

\* the merged frame after the age_group and the genre columns are assigned
Prepare(md) ==
    [k \in 1..Len(md) |->
        [user_id |-> md[k].user_id, item_id |-> md[k].item_id, rating |-> md[k].rating,
         age |-> md[k].age, occupation |-> md[k].occupation,
         age_group |-> Cut(md[k].age),
         flags |-> [g \in genre_columns |-> ToNumeric(md[k].flags[g])]]]

-----------------------------------------------------------------------------
(* execute: groupby(['age_group', 'occupation'], observed=False).sum() *)

\* the occupation level: the values of the occupation column, sorted; the
\* column is factorized on its own, whatever the age_group of the row
Occupations(md) ==
    SelectSeq(OccupationOrder, LAMBDA o : \E k \in 1..Len(md) : md[k].occupation = o)

\* index of the result with observed=True: only the pairs that have rows
GroupKeysObserved(md) ==
    LET occ == Occupations(md)
        all == [n \in 1..(Len(age_labels) * Len(occ)) |->
                   [age_group |-> age_labels[((n - 1) \div Len(occ)) + 1],
                    occupation |-> occ[((n - 1) % Len(occ)) + 1]]]
    IN  SelectSeq(all, LAMBDA key : \E k \in 1..Len(md) :
                      md[k].age_group = key.age_group /\ md[k].occupation = key.occupation)

\* index of the result with every known occupation taken as a category
GroupKeysAllOccupations(md) ==
    [n \in 1..(Len(age_labels) * Len(OccupationOrder)) |->
        [age_group |-> age_labels[((n - 1) \div Len(OccupationOrder)) + 1],
         occupation |-> OccupationOrder[((n - 1) % Len(OccupationOrder)) + 1]]]

\* index of the result: age_group is categorical and observed=False, so the
\* index is the product of all five categories with the occupation level,
\* sorted by category order and then by occupation
GroupKeys(md) ==
    LET occ == Occupations(md)
    IN  [n \in 1..(Len(age_labels) * Len(occ)) |->
            [age_group |-> age_labels[((n - 1) \div Len(occ)) + 1],
             occupation |-> occ[((n - 1) % Len(occ)) + 1]]]

\* .first() in place of .sum(): the flags of the first row of the group
RECURSIVE SumRowsFirst(_, _, _)
SumRowsFirst(md, b, o) ==
    IF md = <<>> THEN [g \in genre_columns |-> 0]
    ELSE LET x == Head(md)
         IN  IF x.age_group = b /\ x.occupation = o
             THEN x.flags
             ELSE SumRowsFirst(Tail(md), b, o)

\* the sum with every genre flag multiplied by the rating of the row
RECURSIVE SumRowsWeighted(_, _, _)
SumRowsWeighted(md, b, o) ==
    IF md = <<>> THEN [g \in genre_columns |-> 0]
    ELSE LET rest == SumRowsWeighted(Tail(md), b, o)
             x == Head(md)
         IN  IF x.age_group = b /\ x.occupation = o
             THEN [g \in genre_columns |-> x.rating * x.flags[g] + rest[g]]
             ELSE rest

\* .sum() of the genre columns over the rows of group (b, o); a row whose
\* age_group is NaN belongs to no group, a group without rows sums to 0
RECURSIVE SumRows(_, _, _)
SumRows(md, b, o) ==
    IF md = <<>> THEN [g \in genre_columns |-> 0]
    ELSE LET rest == SumRows(Tail(md), b, o)
             x == Head(md)
         IN  IF x.age_group = b /\ x.occupation = o
             THEN [g \in genre_columns |-> x.flags[g] + rest[g]]
             ELSE rest

GroupBySum(md) ==
    LET keys == GroupKeys(md)
    IN  [n \in 1..Len(keys) |->
            [age_group |-> keys[n].age_group, occupation |-> keys[n].occupation,
             sums |-> SumRows(md, keys[n].age_group, keys[n].occupation)]]

-----------------------------------------------------------------------------
(* execute: x.nlargest(5).index.tolist() *)

\* nlargest(n, keep='last'): among equal values the later column first
RECURSIVE NLargestKeepLast(_, _, _)
NLargestKeepLast(v, n, taken) ==
    IF n = 0 \/ taken = DOMAIN v THEN <<>>
    ELSE LET left == DOMAIN v \ taken
             best == CHOOSE g \in left :
                        \A h \in left : v[h] < v[g] \/ (v[h] = v[g] /\ h <= g)
         IN  <<best>> \o NLargestKeepLast(v, n - 1, taken \cup {best})

\* nlargest(n) with keep='first': the largest value not yet taken, and among
\* equal values the earliest column (the sort is stable)
RECURSIVE NLargest(_, _, _)
NLargest(v, n, taken) ==
    IF n = 0 \/ taken = DOMAIN v THEN <<>>
    ELSE LET left == DOMAIN v \ taken
             best == CHOOSE g \in left :
                        \A h \in left : v[h] < v[g] \/ (v[h] = v[g] /\ g <= h)
         IN  <<best>> \o NLargest(v, n - 1, taken \cup {best})

\* the apply(lambda x: ..., axis=1).reset_index(name='top_genres') frame
TopGenres(gs) ==
    [n \in 1..Len(gs) |->
        LET top == NLargest(gs[n].sums, TopN, {})
        IN  [age_group |-> gs[n].age_group, occupation |-> gs[n].occupation,
             top_genres |-> [k \in 1..Len(top) |-> Genres[top[k]]]]]

-----------------------------------------------------------------------------
(* save_to_postgres: the array literal and the stored column *)

\* "{" + ", ".join(f'"{genre}"' for genre in top_genres) + "}", as the
\* pieces of the string; a quoted element is written as its text
GenresArray(top) ==
    <<"{">> \o [k \in 1..(IF Len(top) = 0 THEN 0 ELSE 2 * Len(top) - 1) |->
                   IF k % 2 = 1 THEN top[(k + 1) \div 2] ELSE ", "] \o <<"}">>

\* the TEXT[] value PostgreSQL reads from the literal: its elements, in order
PgTextArray(lit) == SelectSeq(lit, LAMBDA t : t \notin {"{", ", ", "}"})

-----------------------------------------------------------------------------
(* Initial states *)

\* the operator is constructed, nothing has run, the destination is empty
InitRun ==
    /\ merged_data = <<>> /\ genre_summary = <<>> /\ top_genres_df = <<>>
    /\ pc = "start" /\ i = 0
    /\ txn = <<>> /\ txn_creates = FALSE
    /\ table_exists = FALSE /\ table = <<>> /\ serial = 0
    /\ runs = 1 /\ faults = 0 /\ committed = 0 /\ base = 0

\* the whole pipeline, on at most one rating and one movie
Init ==
    /\ ratings \in {<<>>} \cup { <<r>> : r \in RatingRows }
    /\ movies \in { t \in MovieTables : Len(t) <= 1 }
    /\ users \in UserTables
    /\ InitRun

\* the aggregation, on up to MaxRatings ratings and tables of up to two rows
InitAgg ==
    /\ ratings \in Tables(RatingRows, MaxRatings)
    /\ movies \in MovieTables
    /\ users \in UserTables
    /\ InitRun

\* the aggregation, on up to MaxRatings ratings, two movies and two users
InitPerm ==
    /\ ratings \in Tables(RatingRows, MaxRatings)
    /\ movies \in { t \in MovieTables : Len(t) = 2 /\ t[2].movie_id = 2 }
    /\ users \in { t \in UserTables : Len(t) = 2 /\ t[2].user_id = 2 }
    /\ InitRun

\* the aggregation of one rating by one user of any age up to MaxAge
InitCut ==
    /\ ratings \in { <<r>> : r \in { q \in RatingRows : q.user_id = 1 } }
    /\ movies \in { t \in MovieTables : Len(t) = 1 }
    /\ users \in { <<[user_id |-> 1, age |-> a, occupation |-> o]>> :
                      a \in (0 - 3)..MaxAge, o \in { OccupationOrder[k] : k \in 1..Len(OccupationOrder) } }
    /\ InitRun

-----------------------------------------------------------------------------
(* execute *)

\* execute, up to the call of save_to_postgres
Aggregate ==
    /\ pc = "start"
    /\ merged_data' = Prepare(Merge(ratings, movies, users))
    /\ genre_summary' = GroupBySum(merged_data')
    /\ top_genres_df' = TopGenres(genre_summary')
    /\ pc' = "save"
    /\ UNCHANGED <<ratings, movies, users, i, txn, txn_creates, table_exists, table,
                   serial, runs, faults, committed, base>>

-----------------------------------------------------------------------------
(* save_to_postgres *)

\* psycopg2.connect, conn.cursor() and CREATE TABLE IF NOT EXISTS: the
\* statement opens the transaction of the connection
Connect ==
    /\ pc = "save"
    /\ pc' = "insert"
    /\ i' = 1
    /\ txn' = <<>>
    /\ txn_creates' = ~table_exists
    /\ base' = Len(table)
    /\ UNCHANGED <<ratings, movies, users, merged_data, genre_summary, top_genres_df,
                   table_exists, table, serial, runs, faults, committed>>

\* the row the INSERT of top_genres_df[k] stores, id drawn from the sequence
InsertedRow(k) ==
    [id |-> serial + 1,
     age_group |-> top_genres_df[k].age_group,
     occupation |-> top_genres_df[k].occupation,
     top_genres |-> PgTextArray(GenresArray(top_genres_df[k].top_genres))]

\* one INSERT on an autocommit connection: the row is committed at once
InsertAutocommit ==
    /\ pc = "insert"
    /\ i <= Len(top_genres_df)
    /\ table' = table \o <<InsertedRow(i)>>
    /\ table_exists' = TRUE
    /\ txn_creates' = FALSE
    /\ serial' = serial + 1
    /\ i' = i + 1
    /\ UNCHANGED <<ratings, movies, users, merged_data, genre_summary, top_genres_df,
                   pc, txn, runs, faults, committed, base>>

\* one pass of the loop: cursor.execute("INSERT ...") inside the open transaction
Insert ==
    /\ pc = "insert"
    /\ i <= Len(top_genres_df)
    /\ txn' = Append(txn, InsertedRow(i))
    /\ serial' = serial + 1
    /\ i' = i + 1
    /\ UNCHANGED <<ratings, movies, users, merged_data, genre_summary, top_genres_df,
                   pc, txn_creates, table_exists, table, runs, faults, committed, base>>

\* cursor.execute of the i-th INSERT raises: the exception leaves
\* save_to_postgres and execute, conn.commit() is never reached, and the
\* server rolls the open transaction back when the connection goes away
InsertFail ==
    /\ pc = "insert"
    /\ i <= Len(top_genres_df)
    /\ faults < MaxFaults
    /\ faults' = faults + 1
    /\ pc' = "failed"
    /\ txn' = <<>>
    /\ txn_creates' = FALSE
    /\ UNCHANGED <<ratings, movies, users, merged_data, genre_summary, top_genres_df,
                   i, table_exists, table, serial, runs, committed, base>>

\* the commit replaces what the table held (no append)
CommitReplace ==
    /\ pc = "insert"
    /\ i > Len(top_genres_df)
    /\ table' = txn
    /\ table_exists' = TRUE
    /\ txn' = <<>>
    /\ txn_creates' = FALSE
    /\ committed' = committed + 1
    /\ pc' = "done"
    /\ UNCHANGED <<ratings, movies, users, merged_data, genre_summary, top_genres_df,
                   i, serial, runs, faults, base>>

\* the loop is over: conn.commit(), cursor.close(), conn.close()
Commit ==
    /\ pc = "insert"
    /\ i > Len(top_genres_df)
    /\ table' = table \o txn
    /\ table_exists' = (table_exists \/ txn_creates)
    /\ txn' = <<>>
    /\ txn_creates' = FALSE
    /\ committed' = committed + 1
    /\ pc' = "done"
    /\ UNCHANGED <<ratings, movies, users, merged_data, genre_summary, top_genres_df,
                   i, serial, runs, faults, base>>

\* the scheduler runs the task again, on the same files and destination
NextRun ==
    /\ pc \in {"done", "failed"}
    /\ runs < MaxRuns
    /\ runs' = runs + 1
    /\ pc' = "start"
    /\ i' = 0
    /\ merged_data' = <<>> /\ genre_summary' = <<>> /\ top_genres_df' = <<>>
    /\ UNCHANGED <<ratings, movies, users, txn, txn_creates, table_exists, table,
                   serial, faults, committed, base>>

-----------------------------------------------------------------------------
(* Specifications *)

Next == Aggregate \/ Connect \/ Insert \/ InsertFail \/ Commit \/ NextRun

Spec == Init /\ [][Next]_vars

NextAgg == Aggregate

SpecAgg == InitAgg /\ [][NextAgg]_vars

SpecPerm == InitPerm /\ [][NextAgg]_vars

SpecCut == InitCut /\ [][NextAgg]_vars

-----------------------------------------------------------------------------
(* Helpers of the properties *)

\* the run has computed its frames
Aggregated == pc # "start"

\* position of a genre name in the declared order
PosOf(name) == CHOOSE g \in genre_columns : Genres[g] = name

\* s without its k-th element
RemoveAt(s, k) == [j \in 1..(Len(s) - 1) |-> IF j < k THEN s[j] ELSE s[j + 1]]

\* the frames execute computes from a ratings table and the loaded movies and users
SummaryOf(rs) == GroupBySum(Prepare(Merge(rs, movies, users)))

HasMovie(r) == \E m \in 1..Len(movies) : movies[m].movie_id = r.item_id
HasUser(r) == \E u \in 1..Len(users) : users[u].user_id = r.user_id

UniqueKeys ==
    /\ \A m, n \in 1..Len(movies) : movies[m].movie_id = movies[n].movie_id => m = n
    /\ \A u, v \in 1..Len(users) : users[u].user_id = users[v].user_id => u = v

\* rows of the merged frame that fall in group (b, o)
Members(b, o) ==
    { k \in 1..Len(merged_data) :
        merged_data[k].age_group = b /\ merged_data[k].occupation = o }

AllZero(v) == \A g \in genre_columns : v[g] = 0

FirstGenres == [k \in 1..TopN |-> Genres[k]]

-----------------------------------------------------------------------------
(* C1 *)

\* C1: for every group of the result, top_genres is the first 5 of the 19
\* genres ordered by descending sum and, among equal sums, by ascending
\* declared position; so it has between 1 and 5 entries and the sums do not
\* increase along it.
C1_TopGenresOrdered ==
    Aggregated =>
        /\ Len(top_genres_df) = Len(genre_summary)
        /\ \A n \in 1..Len(top_genres_df) :
            LET top == top_genres_df[n].top_genres
                v == genre_summary[n].sums
                Before(g, h) == v[g] > v[h] \/ (v[g] = v[h] /\ g < h)
                listed == { PosOf(top[k]) : k \in 1..Len(top) }
            IN  /\ top_genres_df[n].age_group = genre_summary[n].age_group
                /\ top_genres_df[n].occupation = genre_summary[n].occupation
                /\ Len(top) = TopN /\ Len(top) >= 1
                /\ \A k \in 1..Len(top) : top[k] \in { Genres[g] : g \in genre_columns }
                /\ \A k \in 1..(Len(top) - 1) :
                      /\ Before(PosOf(top[k]), PosOf(top[k + 1]))
                      /\ v[PosOf(top[k])] >= v[PosOf(top[k + 1])]
                /\ \A g \in genre_columns \ listed : Before(PosOf(top[Len(top)]), g)

\* a group where a later genre outranks earlier ones by its sum, and ties fill the rest
C1_Witness ==
    /\ Aggregated
    /\ \E n \in 1..Len(genre_summary) :
        /\ genre_summary[n].sums[PosOf("Comedy")] = 2
        /\ genre_summary[n].sums[PosOf("Action")] = 1
        /\ top_genres_df[n].top_genres = <<"Comedy", "Action", "unknown", "Adventure", "Animation">>

-----------------------------------------------------------------------------
(* C2 *)

\* C2 as claimed: the grouping result holds a group for (bucket, occupation)
\* iff at least one joined row has that bucket and occupation, and then
\* exactly one; a pair without rows is absent.
C2_GroupsOnlyObservedPairs ==
    Aggregated =>
        \A b \in { age_labels[k] : k \in 1..Len(age_labels) } :
        \A o \in { OccupationOrder[k] : k \in 1..Len(OccupationOrder) } :
            Cardinality({ n \in 1..Len(genre_summary) :
                            genre_summary[n].age_group = b /\ genre_summary[n].occupation = o })
                = IF Members(b, o) # {} THEN 1 ELSE 0

\* C2 amended: the grouping result holds exactly one group for every pair of
\* one of the five buckets and an occupation carried by at least one joined
\* row, and no other group; a pair without member rows is present with all
\* sums 0 and the first five declared genres as top_genres, and a committed
\* run persists one row per group, the empty ones included.
C2_GroupsCrossProduct ==
    /\ Aggregated =>
        /\ \A b \in { age_labels[k] : k \in 1..Len(age_labels) } :
           \A o \in { OccupationOrder[k] : k \in 1..Len(OccupationOrder) } :
              Cardinality({ n \in 1..Len(genre_summary) :
                              genre_summary[n].age_group = b /\ genre_summary[n].occupation = o })
                  = IF \E k \in 1..Len(merged_data) : merged_data[k].occupation = o
                    THEN 1 ELSE 0
        /\ Len(genre_summary) =
              Len(age_labels) * Cardinality({ merged_data[k].occupation : k \in 1..Len(merged_data) })
        /\ \A n \in 1..Len(genre_summary) :
              Members(genre_summary[n].age_group, genre_summary[n].occupation) = {}
                 => /\ AllZero(genre_summary[n].sums)
                    /\ top_genres_df[n].top_genres = FirstGenres
    /\ pc = "done" =>
        /\ Len(table) = base + Len(genre_summary)
        /\ \A n \in 1..Len(genre_summary) :
              /\ table[base + n].age_group = genre_summary[n].age_group
              /\ table[base + n].occupation = genre_summary[n].occupation

\* a committed run whose result holds a group no joined row belongs to
C2_Witness ==
    /\ pc = "done"
    /\ \E n \in 1..Len(genre_summary) :
        /\ Members(genre_summary[n].age_group, genre_summary[n].occupation) = {}
        /\ table[base + n].top_genres = FirstGenres
    /\ \E n \in 1..Len(genre_summary) :
        Members(genre_summary[n].age_group, genre_summary[n].occupation) # {}

-----------------------------------------------------------------------------
(* C3 *)

\* C3 as claimed: when the k-th insert of the loop fails, the k-1 records
\* inserted before it in the same loop are committed in the table.
C3_EarlierInsertsCommitted ==
    pc = "failed" => Len(table) = base + (i - 1)

\* C3 amended: the inserts of a run share one transaction, committed once
\* after the loop. While the loop runs nothing of it is committed; when the
\* k-th insert fails no further insert and no commit is attempted, the error
\* ends the run, and neither the k-1 earlier records nor the CREATE TABLE of
\* the run are committed: the table is as it was before the run.
C3_FailureCommitsNothing ==
    /\ pc = "insert" => Len(table) = base /\ Len(txn) = i - 1
    /\ pc = "failed" =>
        /\ Len(table) = base
        /\ txn = <<>> /\ ~txn_creates
        /\ committed = 0 => ~table_exists /\ table = <<>>
        /\ ~ENABLED Insert /\ ~ENABLED Commit
    /\ pc = "done" => Len(table) = base + Len(top_genres_df)

\* the second or a later insert of a loop failed
C3_Witness == pc = "failed" /\ i >= 2 /\ serial >= 1

-----------------------------------------------------------------------------
(* C4 *)

\* number of joined rows one rating yields: matching movies times matching users
Pairs(r) ==
    Cardinality({ m \in 1..Len(movies) : movies[m].movie_id = r.item_id })
        * Cardinality({ u \in 1..Len(users) : users[u].user_id = r.user_id })

RECURSIVE PairsOf(_)
PairsOf(rs) == IF rs = <<>> THEN 0 ELSE Pairs(Head(rs)) + PairsOf(Tail(rs))

AllMatched == \A k \in 1..Len(ratings) : HasMovie(ratings[k]) /\ HasUser(ratings[k])

\* C4 as claimed: whatever the three tables hold, the merges yield at most
\* one joined row per interaction, and exactly one per interaction iff every
\* interaction has a matching item and actor.
C4_JoinAtMostInteractions ==
    Aggregated =>
        /\ Len(merged_data) <= Len(ratings)
        /\ Len(merged_data) = Len(ratings) <=> AllMatched

\* C4 amended: every interaction yields one joined row per pair of a matching
\* movies row and a matching users row; so when movie_id is unique in movies
\* and user_id is unique in users the joined rows are at most the
\* interactions, with equality iff every interaction is matched. In any case
\* an interaction without a matching item or actor yields no joined row and
\* adds to no group's sum.
C4_JoinCardinality ==
    Aggregated =>
        /\ Len(merged_data) = PairsOf(ratings)
        /\ UniqueKeys =>
              /\ Len(merged_data) <= Len(ratings)
              /\ Len(merged_data) = Len(ratings) <=> AllMatched
        /\ \A k \in 1..Len(merged_data) :
              \E r \in 1..Len(ratings) :
                 /\ ratings[r].user_id = merged_data[k].user_id
                 /\ ratings[r].item_id = merged_data[k].item_id
                 /\ HasMovie(ratings[r]) /\ HasUser(ratings[r])
        /\ \A r \in 1..Len(ratings) :
              ~(HasMovie(ratings[r]) /\ HasUser(ratings[r]))
                 => /\ \A k \in 1..Len(merged_data) :
                          ~(/\ merged_data[k].user_id = ratings[r].user_id
                            /\ merged_data[k].item_id = ratings[r].item_id)
                    /\ SummaryOf(RemoveAt(ratings, r)) = genre_summary

\* unique keys, one interaction matched and joined, another dropped
C4_Witness ==
    /\ Aggregated /\ UniqueKeys
    /\ Len(ratings) = 2 /\ Len(merged_data) = 1
    /\ ~HasMovie(ratings[1]) /\ HasUser(ratings[1])
    /\ \E n \in 1..Len(genre_summary) : ~AllZero(genre_summary[n].sums)

-----------------------------------------------------------------------------
(* C5 *)

\* C5: every age a >= 0 gets exactly one label, by lower-inclusive half-open
\* bins: below 20 "<20", 20 to below 25 "20-25", 25 to below 35 "25-35", 35
\* to below 45 "35-45", 45 and more "45+".
C5_AgeBuckets ==
    Aggregated =>
        \A k \in 1..Len(merged_data) :
            LET a == merged_data[k].age
                l == merged_data[k].age_group
            IN  a >= 0 =>
                  /\ Cardinality({ b \in 1..Len(age_labels) : age_labels[b] = l }) = 1
                  /\ (a < 20) <=> (l = "<20")
                  /\ (20 <= a /\ a < 25) <=> (l = "20-25")
                  /\ (25 <= a /\ a < 35) <=> (l = "25-35")
                  /\ (35 <= a /\ a < 45) <=> (l = "35-45")
                  /\ (45 <= a) <=> (l = "45+")

\* an age on a bin edge was cut into the bin that starts there
C5_Witness ==
    /\ Aggregated
    /\ \E k \in 1..Len(merged_data) :
          merged_data[k].age = 20 /\ merged_data[k].age_group = "20-25"

-----------------------------------------------------------------------------
(* C6 *)

\* a row without its surrogate id
NoId(row) == [age_group |-> row.age_group, occupation |-> row.occupation,
              top_genres |-> row.top_genres]

\* the committed rows are `committed` blocks of equal rows, one per committed
\* run, and each block is the result frame of the run, row by row
CopiesOfResult ==
    /\ committed = 0 => table = <<>>
    /\ committed > 0 =>
          LET len == Len(table) \div committed
          IN  /\ Len(table) = committed * len
              /\ \A j \in 1..Len(table) :
                    NoId(table[j]) = NoId(table[((j - 1) % len) + 1])
    /\ Aggregated =>
          /\ Len(table) = committed * Len(top_genres_df)
          /\ \A j \in 1..Len(table) :
                NoId(table[j]) = top_genres_df[((j - 1) % Len(top_genres_df)) + 1]
    /\ \A j, k \in 1..Len(table) : j < k => table[j].id < table[k].id

\* C6: the pipeline only appends: a step never removes or changes a
\* committed row, and the runs that committed, all on the same input, leave
\* one full copy of the group rows each, differing only in the id, with no
\* deduplication on (age_group, occupation).
C6_AppendOnly ==
    /\ [][ /\ Len(table) <= Len(table')
           /\ \A j \in 1..Len(table) : table'[j] = table[j] ]_vars
    /\ []CopiesOfResult

\* two runs on the same input have committed, the table holds both copies
C6_Witness ==
    /\ pc = "done" /\ committed = 2
    /\ Len(top_genres_df) >= 5
    /\ Len(table) = 2 * Len(top_genres_df)
    /\ NoId(table[1]) = NoId(table[Len(top_genres_df) + 1])
    /\ table[1].id # table[Len(top_genres_df) + 1].id
    /\ \E n \in 1..Len(genre_summary) : ~AllZero(genre_summary[n].sums)

-----------------------------------------------------------------------------
(* C7 *)

\* the ratings table with its rows in the order p
Permuted(p) == [k \in 1..Len(ratings) |-> ratings[p[k]]]

\* C7: for every permutation of the interaction rows the summary frame (each
\* group's sums) and the result frame (each group's top_genres, tied genres
\* in the same order) are those of the unpermuted input.
C7_OrderIndependent ==
    Aggregated =>
        \A p \in Permutations(1..Len(ratings)) :
            LET summary == SummaryOf(Permuted(p))
            IN  /\ summary = genre_summary
                /\ TopGenres(summary) = top_genres_df

\* two interactions of one group that carry different flags
C7_Witness ==
    /\ Aggregated
    /\ Len(merged_data) = 2
    /\ merged_data[1].age_group = merged_data[2].age_group
    /\ merged_data[1].age_group # NaN
    /\ merged_data[1].occupation = merged_data[2].occupation
    /\ merged_data[1].flags # merged_data[2].flags
    /\ merged_data[1].item_id # merged_data[2].item_id

-----------------------------------------------------------------------------
(* C8 *)

\* the scenario: one rating of 5 by a 22-year-old engineer on a Comedy-only movie
C8_Scenario ==
    /\ Aggregated
    /\ ratings = << [user_id |-> 1, item_id |-> 1, rating |-> 5] >>
    /\ movies = << MovieRow(1, Flags({"Comedy"}, {})) >>
    /\ users = << [user_id |-> 1, age |-> 22, occupation |-> "engineer"] >>

\* C8 as claimed: the flag is weighted by the rating, so the scenario gives
\* group ("20-25", "engineer") Comedy = 5 and 0 elsewhere.
C8_WeightedByRating ==
    C8_Scenario =>
        \E n \in 1..Len(genre_summary) :
            /\ genre_summary[n].age_group = "20-25"
            /\ genre_summary[n].occupation = "engineer"
            /\ \A g \in genre_columns :
                  genre_summary[n].sums[g] = IF Genres[g] = "Comedy" THEN 5 ELSE 0

\* C8 amended: the value of a group and genre is the plain sum of the 0/1
\* genre flag over the joined rows of the group, the rating is not used; the
\* scenario gives group ("20-25", "engineer") Comedy = 1 and 0 elsewhere.
C8_PlainFlagSum ==
    /\ Aggregated =>
          \A n \in 1..Len(genre_summary) : \A g \in genre_columns :
              genre_summary[n].sums[g] =
                 Cardinality({ k \in Members(genre_summary[n].age_group,
                                             genre_summary[n].occupation) :
                                 merged_data[k].flags[g] = 1 })
    /\ C8_Scenario =>
          \E n \in 1..Len(genre_summary) :
              /\ genre_summary[n].age_group = "20-25"
              /\ genre_summary[n].occupation = "engineer"
              /\ \A g \in genre_columns :
                    genre_summary[n].sums[g] = IF Genres[g] = "Comedy" THEN 1 ELSE 0

\* the scenario has been aggregated
C8_Witness ==
    /\ C8_Scenario
    /\ Len(merged_data) = 1 /\ merged_data[1].rating = 5
    /\ merged_data[1].age_group = "20-25"

-----------------------------------------------------------------------------
(* C9 *)

\* C9: when no interaction is joined (no interaction at all, or none with
\* both an item and an actor) the run raises nothing, the result has no
\* group, and save_to_postgres inserts no row.
C9_EmptyInput ==
    (Aggregated /\ merged_data = <<>>) =>
        /\ genre_summary = <<>> /\ top_genres_df = <<>>
        /\ pc # "failed"
        /\ txn = <<>> /\ table = <<>> /\ serial = 0
        /\ pc = "insert" => ENABLED Commit /\ ~ENABLED Insert /\ ~ENABLED InsertFail

\* a run on an empty ratings table has committed: the table exists and is empty
C9_Witness ==
    /\ pc = "done" /\ ratings = <<>> /\ users # <<>> /\ movies # <<>>
    /\ table_exists /\ table = <<>>

-----------------------------------------------------------------------------
(* C10 *)

NegativeRows == { k \in 1..Len(merged_data) : merged_data[k].age < 0 }

\* C10 as claimed: a joined row of negative age gets no bucket, and the
\* result is the one computed with that row removed before grouping.
C10_NegativeAgeAsRemoved ==
    Aggregated =>
        \A k \in NegativeRows :
            /\ merged_data[k].age_group = NaN
            /\ TopGenres(GroupBySum(RemoveAt(merged_data, k))) = top_genres_df

\* C10 amended: a joined row of negative age gets no bucket and adds to no
\* group's sum: every group of an occupation that another joined row carries
\* has the sums and top_genres computed with the row removed. The row's
\* occupation stays in the occupation level: when no other joined row
\* carries it, the result holds five all-zero groups of that occupation,
\* which are absent when the row is removed.
C10_NegativeAgeNoSum ==
    Aggregated =>
        \A k \in NegativeRows :
            LET rest == RemoveAt(merged_data, k)
                o == merged_data[k].occupation
                others(f) == SelectSeq(f, LAMBDA row : row.occupation # o)
                own == SelectSeq(genre_summary, LAMBDA row : row.occupation = o)
            IN  /\ merged_data[k].age_group = NaN
                /\ \A n \in 1..Len(genre_summary) :
                      k \notin Members(genre_summary[n].age_group, genre_summary[n].occupation)
                /\ IF \E j \in 1..Len(rest) : rest[j].occupation = o
                   THEN /\ GroupBySum(rest) = genre_summary
                        /\ TopGenres(GroupBySum(rest)) = top_genres_df
                   ELSE /\ GroupBySum(rest) = others(genre_summary)
                        /\ TopGenres(GroupBySum(rest)) = others(top_genres_df)
                        /\ Len(own) = Len(age_labels)
                        /\ \A n \in 1..Len(own) : AllZero(own[n].sums)

\* a joined row of negative age next to a row of the same occupation that is counted
C10_Witness ==
    /\ Aggregated
    /\ \E k \in NegativeRows : \E j \in 1..Len(merged_data) :
          /\ merged_data[j].age >= 0
          /\ merged_data[j].occupation = merged_data[k].occupation
          /\ \E n \in 1..Len(genre_summary) :
                /\ genre_summary[n].occupation = merged_data[k].occupation
                /\ ~AllZero(genre_summary[n].sums)

====
